---- MODULE Spec2Model ----
(***************************************************************************)
(* IndicAI: the daily-choices quota store (localStorage), the random       *)
(* selector built on it, a client calling them, the recommendation         *)
(* orchestrator with its catalog source and re-ranker, and the preference  *)
(* updater.                                                                *)
(*                                                                         *)
(* A MediaItem is represented by its id (types.ts: identity is the id), an *)
(* id by a positive integer.  A date is a day number; Date.now() is        *)
(* observed at the granularity of a day, so a ChosenItem's timestamp is    *)
(* the day it was added.  Every exported function runs to completion       *)
(* (synchronous JavaScript), so each call is one step.                     *)
(***************************************************************************)
EXTENDS Integers, Sequences, FiniteSets, TLC

VARIABLES
    window,        \* TRUE iff `typeof window !== 'undefined'` (browser context)
    localStorage,  \* the two keys the module keeps in window.localStorage
    now,           \* the wall clock, as a day number
    ret,           \* the last call: operation, arguments and returned value
    shown,         \* observer: ids returned by selections since the day began
    orch,          \* the calls of getPersonalizedRecommendations in progress
    profile,       \* the preference list and the last update folded into it
    reranker       \* the last response text parsed, its candidates and the ids read

\* what the quota store's callers leave alone
aside == <<orch, profile, reranker>>

vars == <<window, localStorage, now, ret, shown, orch, profile, reranker>>

----------------------------------------------------------------------------
(* Bounds of the model *)

MaxDay == 2          \* days the clock ranges over
MaxCand == 2         \* longest candidate list handed to the selector
PageLen == 3         \* length of a catalog page in the day-long observation
MaxShuffle == 3      \* longest list whose every rearrangement is enumerated
MaxText == 3         \* longest response text enumerated word by word
MaxGenres == 2       \* most genre labels of an interacted item

----------------------------------------------------------------------------
(* Program constants *)

DAILY_LIMIT == 20

\* localStorage.getItem(LAST_RESET_DATE_KEY) === null
NoDate == 0

Days == 1..MaxDay

\* Ids used as arguments: one that an initial store of any positive size
\* holds, the last one a full initial store holds, and one no initial store holds.
Ids == {1, DAILY_LIMIT, DAILY_LIMIT + 1}

\* Ids of candidates: one an initial store of positive size holds, one it does not.
CandIds == {1, DAILY_LIMIT + 1}

\* The target counts the callers pass to the selector.
RecommendationCount == 10

\* variant: the catalog's selection is shorter than the final one
CatalogCount_Short == RecommendationCount - 1

CatalogCount == 20

\* Requested counts: none, fewer than the candidates, and the two the callers pass.
Counts == {0, 1, RecommendationCount, CatalogCount}

Min(a, b) == IF a <= b THEN a ELSE b
Max(a, b) == IF a >= b THEN a ELSE b

Range(s) == {s[i] : i \in 1..Len(s)}

\* sequences over S of length at most n
SeqUpTo(S, n) == UNION {[1..k -> S] : k \in 0..n}

----------------------------------------------------------------------------
(* JavaScript array helpers *)

\* Array.prototype.slice(0, end)
Slice0(s, end) ==
    LET len == Len(s)
        final == IF end < 0 THEN Max(len + end, 0) ELSE Min(end, len)
    IN  SubSeq(s, 1, final)

\* s rotated left by k, and s reversed
Rotate(s, k) == [i \in 1..Len(s) |-> s[((i + k - 1) % Len(s)) + 1]]
Reverse(s) == [i \in 1..Len(s) |-> s[Len(s) + 1 - i]]

\* [...s].sort(() => 0.5 - Math.random()): the comparator is random, so the
\* outcome is any rearrangement of s.  Of a list longer than MaxShuffle only
\* the rotations and their reversals are enumerated.
Shuffles(s) ==
    IF Len(s) <= MaxShuffle
    THEN {[i \in 1..Len(s) |-> s[p[i]]] : p \in Permutations(1..Len(s))}
    ELSE {Rotate(s, k) : k \in 0..(Len(s) - 1)}
            \cup {Reverse(Rotate(s, k)) : k \in 0..(Len(s) - 1)}

----------------------------------------------------------------------------
(* daily-choices *)

ChosenItem(id, timestamp) == [id |-> id, timestamp |-> timestamp]

isClientSide(win) == win

getCurrentDate(clock) == clock

shouldResetDailyCount(win, ls, clock) ==
    IF ~isClientSide(win) THEN FALSE
    ELSE ls.indicai_last_reset_date # getCurrentDate(clock)

\* variant: the date is overwritten but the list is kept
resetDailyCountIfNeeded_KeepsList(win, ls, clock) ==
    IF ~isClientSide(win) THEN ls
    ELSE IF shouldResetDailyCount(win, ls, clock)
         THEN [ls EXCEPT !.indicai_last_reset_date = getCurrentDate(clock)]
         ELSE ls

\* returns the storage after the call
resetDailyCountIfNeeded(win, ls, clock) ==
    IF ~isClientSide(win) THEN ls
    ELSE IF shouldResetDailyCount(win, ls, clock)
         THEN [indicai_chosen_today |-> <<>>,
               indicai_last_reset_date |-> getCurrentDate(clock)]
         ELSE ls

\* The functions below return [ls |-> storage after the call, val |-> result].

getChosenItemsToday(win, ls, clock) ==
    IF ~isClientSide(win) THEN [ls |-> ls, val |-> <<>>]
    ELSE LET ls1 == resetDailyCountIfNeeded(win, ls, clock)
         IN  [ls |-> ls1, val |-> ls1.indicai_chosen_today]

\* variant: `>` where the code has `>=`
addChosenItem_OffByOne(win, ls, clock, id) ==
    IF ~isClientSide(win) THEN [ls |-> ls, val |-> TRUE]
    ELSE LET ls1 == resetDailyCountIfNeeded(win, ls, clock)
             got == getChosenItemsToday(win, ls1, clock)
             chosenItems == got.val
             alreadyChosen == \E i \in 1..Len(chosenItems) : chosenItems[i].id = id
             updatedChosenItems == Append(chosenItems, ChosenItem(id, clock))
         IN  IF Len(chosenItems) > DAILY_LIMIT THEN [ls |-> got.ls, val |-> FALSE]
             ELSE IF alreadyChosen THEN [ls |-> got.ls, val |-> TRUE]
             ELSE [ls |-> [got.ls EXCEPT !.indicai_chosen_today = updatedChosenItems],
                   val |-> TRUE]

\* variant: an id already chosen has its record moved to the end
addChosenItem_Refresh(win, ls, clock, id) ==
    IF ~isClientSide(win) THEN [ls |-> ls, val |-> TRUE]
    ELSE LET ls1 == resetDailyCountIfNeeded(win, ls, clock)
             got == getChosenItemsToday(win, ls1, clock)
             chosenItems == got.val
             alreadyChosen == \E i \in 1..Len(chosenItems) : chosenItems[i].id = id
             other(item) == item.id # id
             refreshed == Append(SelectSeq(chosenItems, other), ChosenItem(id, clock))
             updatedChosenItems == Append(chosenItems, ChosenItem(id, clock))
         IN  IF Len(chosenItems) >= DAILY_LIMIT THEN [ls |-> got.ls, val |-> FALSE]
             ELSE IF alreadyChosen THEN [ls |-> [got.ls EXCEPT !.indicai_chosen_today = refreshed], val |-> TRUE]
             ELSE [ls |-> [got.ls EXCEPT !.indicai_chosen_today = updatedChosenItems],
                   val |-> TRUE]

\* variant: the new record is put first
addChosenItem_Prepend(win, ls, clock, id) ==
    IF ~isClientSide(win) THEN [ls |-> ls, val |-> TRUE]
    ELSE LET ls1 == resetDailyCountIfNeeded(win, ls, clock)
             got == getChosenItemsToday(win, ls1, clock)
             chosenItems == got.val
             alreadyChosen == \E i \in 1..Len(chosenItems) : chosenItems[i].id = id
             updatedChosenItems == <<ChosenItem(id, clock)>> \o chosenItems
         IN  IF Len(chosenItems) >= DAILY_LIMIT THEN [ls |-> got.ls, val |-> FALSE]
             ELSE IF alreadyChosen THEN [ls |-> got.ls, val |-> TRUE]
             ELSE [ls |-> [got.ls EXCEPT !.indicai_chosen_today = updatedChosenItems],
                   val |-> TRUE]

\* variant: no check for an id already chosen
addChosenItem_NoDedup(win, ls, clock, id) ==
    IF ~isClientSide(win) THEN [ls |-> ls, val |-> TRUE]
    ELSE LET ls1 == resetDailyCountIfNeeded(win, ls, clock)
             got == getChosenItemsToday(win, ls1, clock)
             chosenItems == got.val
             alreadyChosen == \E i \in 1..Len(chosenItems) : chosenItems[i].id = id
             updatedChosenItems == Append(chosenItems, ChosenItem(id, clock))
         IN  IF Len(chosenItems) >= DAILY_LIMIT THEN [ls |-> got.ls, val |-> FALSE]
             ELSE IF FALSE THEN [ls |-> got.ls, val |-> TRUE]
             ELSE [ls |-> [got.ls EXCEPT !.indicai_chosen_today = updatedChosenItems],
                   val |-> TRUE]

addChosenItem(win, ls, clock, id) ==
    IF ~isClientSide(win) THEN [ls |-> ls, val |-> TRUE]
    ELSE LET ls1 == resetDailyCountIfNeeded(win, ls, clock)
             got == getChosenItemsToday(win, ls1, clock)
             chosenItems == got.val
             alreadyChosen == \E i \in 1..Len(chosenItems) : chosenItems[i].id = id
             updatedChosenItems == Append(chosenItems, ChosenItem(id, clock))
         IN  IF Len(chosenItems) >= DAILY_LIMIT THEN [ls |-> got.ls, val |-> FALSE]
             ELSE IF alreadyChosen THEN [ls |-> got.ls, val |-> TRUE]
             ELSE [ls |-> [got.ls EXCEPT !.indicai_chosen_today = updatedChosenItems],
                   val |-> TRUE]

\* variant: the stored count is not subtracted
getRemainingChoices_Full(win, ls, clock) ==
    IF ~isClientSide(win) THEN [ls |-> ls, val |-> DAILY_LIMIT]
    ELSE LET ls1 == resetDailyCountIfNeeded(win, ls, clock)
             got == getChosenItemsToday(win, ls1, clock)
         IN  [ls |-> got.ls, val |-> DAILY_LIMIT]

getRemainingChoices(win, ls, clock) ==
    IF ~isClientSide(win) THEN [ls |-> ls, val |-> DAILY_LIMIT]
    ELSE LET ls1 == resetDailyCountIfNeeded(win, ls, clock)
             got == getChosenItemsToday(win, ls1, clock)
         IN  [ls |-> got.ls, val |-> Max(0, DAILY_LIMIT - Len(got.val))]

\* variant: the server-side answer is inverted
isDailyLimitReached_ServerBlocked(win, ls, clock) ==
    IF ~isClientSide(win) THEN [ls |-> ls, val |-> TRUE]
    ELSE LET got == getRemainingChoices(win, ls, clock)
         IN  [ls |-> got.ls, val |-> got.val <= 0]

\* variant: the limit is reached only below zero
isDailyLimitReached_BelowZero(win, ls, clock) ==
    IF ~isClientSide(win) THEN [ls |-> ls, val |-> FALSE]
    ELSE LET got == getRemainingChoices(win, ls, clock)
         IN  [ls |-> got.ls, val |-> got.val < 0]

isDailyLimitReached(win, ls, clock) ==
    IF ~isClientSide(win) THEN [ls |-> ls, val |-> FALSE]
    ELSE LET got == getRemainingChoices(win, ls, clock)
         IN  [ls |-> got.ls, val |-> got.val <= 0]

\* variant: nothing is filtered out
filterOutChosenItems_NoFilter(win, ls, clock, items) ==
    IF ~isClientSide(win) THEN [ls |-> ls, val |-> items]
    ELSE LET got == getChosenItemsToday(win, ls, clock)
         IN  [ls |-> got.ls, val |-> items]

filterOutChosenItems(win, ls, clock, items) ==
    IF ~isClientSide(win) THEN [ls |-> ls, val |-> items]
    ELSE LET got == getChosenItemsToday(win, ls, clock)
             chosenIds == {got.val[i].id : i \in 1..Len(got.val)}
             unchosen(item) == item \notin chosenIds
         IN  [ls |-> got.ls, val |-> SelectSeq(items, unchosen)]   \* items.filter(...)

\* addChosenItem for each id of a list in turn; the storage after the last
RECURSIVE AddEach(_, _, _, _)
AddEach(win, ls, clock, ids) ==
    IF ids = <<>> THEN ls
    ELSE AddEach(win, addChosenItem(win, ls, clock, Head(ids)).ls, clock, Tail(ids))

\* variant: every returned id is registered with addChosenItem
getRandomUnchosenSelection_Registering(win, ls, clock, items, count) ==
    IF ~isClientSide(win)
    THEN {[ls |-> ls, val |-> Slice0(shuffled, Min(count, Len(items)))] :
             shuffled \in Shuffles(items)}
    ELSE LET filtered == filterOutChosenItems(win, ls, clock, items)
             remaining == getRemainingChoices(win, filtered.ls, clock)
             maxSelectable == Min(count, remaining.val)
         IN  IF maxSelectable <= 0 THEN {[ls |-> remaining.ls, val |-> <<>>]}
             ELSE {[ls |-> AddEach(win, remaining.ls, clock, Slice0(shuffled, maxSelectable)),
                    val |-> Slice0(shuffled, maxSelectable)] :
                      shuffled \in Shuffles(filtered.val)}

\* variant: the remaining choices do not limit the selection
getRandomUnchosenSelection_IgnoresRemaining(win, ls, clock, items, count) ==
    IF ~isClientSide(win)
    THEN {[ls |-> ls, val |-> Slice0(shuffled, Min(count, Len(items)))] :
             shuffled \in Shuffles(items)}
    ELSE LET filtered == filterOutChosenItems(win, ls, clock, items)
             remaining == getRemainingChoices(win, filtered.ls, clock)
             maxSelectable == count
         IN  IF maxSelectable <= 0 THEN {[ls |-> remaining.ls, val |-> <<>>]}
             ELSE {[ls |-> remaining.ls, val |-> Slice0(shuffled, maxSelectable)] :
                      shuffled \in Shuffles(filtered.val)}

\* The set of possible [ls, val] outcomes: the shuffle is random.
getRandomUnchosenSelection(win, ls, clock, items, count) ==
    IF ~isClientSide(win)
    THEN {[ls |-> ls, val |-> Slice0(shuffled, Min(count, Len(items)))] :
             shuffled \in Shuffles(items)}
    ELSE LET filtered == filterOutChosenItems(win, ls, clock, items)
             unchosenItems == filtered.val
             remaining == getRemainingChoices(win, filtered.ls, clock)
             remainingChoices == remaining.val
             maxSelectable == Min(count, remainingChoices)
         IN  IF maxSelectable <= 0 THEN {[ls |-> remaining.ls, val |-> <<>>]}
             ELSE {[ls |-> remaining.ls, val |-> Slice0(shuffled, maxSelectable)] :
                      shuffled \in Shuffles(unchosenItems)}

----------------------------------------------------------------------------
(* gemini-ai: the re-ranker *)

\* A response text is read as its sequence of words: a positive number stands
\* for a run of digits between word boundaries (it is the id it spells),
\* Word for any other word.
Word == 0

\* ids the re-ranker keeps, and items it returns
RerankLimit == 10

\* [...new Set(s)]: the first occurrence of every value, in order
RECURSIVE Unique(_)
Unique(s) ==
    IF s = <<>> THEN <<>>
    ELSE LET init == Unique(SubSeq(s, 1, Len(s) - 1))
             last == s[Len(s)]
         IN  IF last \in Range(init) THEN init ELSE Append(init, last)

\* variant: repeated ids are kept
parseGeminiResponse_KeepsRepeats(response, availableItems) ==
    LET isNumber(word) == word # Word
        idMatches == SelectSeq(response, isNumber)
        isAvailable(id) == \E i \in 1..Len(availableItems) : availableItems[i] = id
        validIds == SelectSeq(idMatches, isAvailable)
    IN  Slice0(validIds, RerankLimit)

\* the try block; response.match on a string does not throw
parseGeminiResponse(response, availableItems) ==
    LET isNumber(word) == word # Word
        idMatches == SelectSeq(response, isNumber)             \* /\b\d+\b/g
        isAvailable(id) == \E i \in 1..Len(availableItems) : availableItems[i] = id
        validIds == SelectSeq(idMatches, isAvailable)
    IN  Slice0(Unique(validIds), RerankLimit)

\* What the call of the generative service comes to: threw when fetch rejects,
\* the status is not ok or the body is no JSON; otherwise the text of the reply.
GeminiReply(threw, text) == [threw |-> threw, text |-> text]

\* variant: a failed call yields no recommendation instead of the candidates
getGeminiPersonalizedRecommendations_FailsEmpty(key, reply, tmdbRecommendations) ==
    IF ~key THEN tmdbRecommendations
    ELSE IF reply.threw THEN <<>>
    ELSE LET recommendedIds == parseGeminiResponse(reply.text, tmdbRecommendations)
             found(id) == id \in Range(tmdbRecommendations)
         IN  Slice0(SelectSeq(recommendedIds, found), RerankLimit)

\* key: NEXT_PUBLIC_GEMINI_API_KEY is set.  An item is its id, so
\* tmdbRecommendations.find(item => item.id === id) is id when it is a candidate.
getGeminiPersonalizedRecommendations(key, reply, tmdbRecommendations) ==
    IF ~key THEN tmdbRecommendations
    ELSE IF reply.threw THEN tmdbRecommendations
    ELSE LET recommendedIds == parseGeminiResponse(reply.text, tmdbRecommendations)
             found(id) == id \in Range(tmdbRecommendations)
         IN  Slice0(SelectSeq(recommendedIds, found), RerankLimit)

----------------------------------------------------------------------------
(* tmdb-api: the catalog source *)

\* What the requests of one catalog operation come to: threw when any
\* fetchFromTmdb rejects; matched is whether a preference matched a genre.
CatalogReply(threw, matched, items) ==
    [threw |-> threw, matched |-> matched, items |-> items]

\* variant: the limit is not looked up
dailyLimitGate_Open(win, ls, clock) == [ls |-> ls, val |-> FALSE]

\* `typeof window !== 'undefined' && isDailyLimitReached()`, which opens
\* fetchPopularContent, fetchTmdbRecommendations and searchTmdbContent
dailyLimitGate(win, ls, clock) ==
    IF win THEN isDailyLimitReached(win, ls, clock)
    ELSE [ls |-> ls, val |-> FALSE]

\* The functions below return the set of possible
\* [ls |-> storage after, val |-> list returned, threw |-> an exception left].

\* fetchPopularContent from its try block on
fetchPopularContentTry(win, ls, clock, reply) ==
    IF reply.threw THEN {[ls |-> ls, val |-> <<>>, threw |-> FALSE]}
    ELSE {[ls |-> r.ls, val |-> r.val, threw |-> FALSE] :
             r \in getRandomUnchosenSelection(win, ls, clock, reply.items, CatalogCount)}

\* variant: the exception of a failed request is not caught
fetchTmdbRecommendationsTry_Uncaught(win, ls, clock, reply) ==
    IF reply.threw THEN {[ls |-> ls, val |-> <<>>, threw |-> TRUE]}
    ELSE {[ls |-> r.ls, val |-> r.val, threw |-> FALSE] :
             r \in getRandomUnchosenSelection(win, ls, clock, reply.items, CatalogCount)}

\* fetchTmdbRecommendations from its try block on, allRecommendations being
\* reply.items (the discover results, or what fetchPopularContent returned)
fetchTmdbRecommendationsTry(win, ls, clock, reply) ==
    IF reply.threw THEN {[ls |-> ls, val |-> <<>>, threw |-> FALSE]}
    ELSE {[ls |-> r.ls, val |-> r.val, threw |-> FALSE] :
             r \in getRandomUnchosenSelection(win, ls, clock, reply.items, CatalogCount)}

\* searchTmdbContent from its try block on
searchTmdbContentTry(win, ls, clock, reply) ==
    IF reply.threw THEN {[ls |-> ls, val |-> <<>>, threw |-> FALSE]}
    ELSE {[ls |-> r.ls, val |-> r.val, threw |-> FALSE] :
             r \in getRandomUnchosenSelection(win, ls, clock, reply.items, CatalogCount)}

----------------------------------------------------------------------------
(* recommendations: the orchestrator *)

\* mock-data: the bundled dataset, one item more than the orchestrator asks
\* for, its ids the lowest
mockMediaItems == [i \in 1..(RecommendationCount + 1) |-> i]

\* variant: the fallback asks for the catalog's count
mockFallback_CatalogCount(win, ls, clock) ==
    getRandomUnchosenSelection(win, ls, clock, mockMediaItems, CatalogCount)

\* getRandomUnchosenSelection(mockMediaItems, 10), in the empty-catalog branch
\* and again in the catch block
mockFallback(win, ls, clock) ==
    getRandomUnchosenSelection(win, ls, clock, mockMediaItems, RecommendationCount)

\* variant: the re-ranker's list is used even when it is empty
finalRecommendations_AlwaysGemini(geminiRecommendations, tmdbRecommendations) ==
    geminiRecommendations

finalRecommendations(geminiRecommendations, tmdbRecommendations) ==
    IF Len(geminiRecommendations) > 0 THEN geminiRecommendations
    ELSE tmdbRecommendations

\* the two calls that may be in progress at once
Procs == {1, 2}

\* A call: where it is suspended, its locals, the response text of the
\* generative service, what it did so far as <<stage, event>> pairs, whether
\* it began while the other call was suspended, and the items of the last
\* answer of the catalog.
NewCall == [pc |-> "start", tmdb |-> <<>>, final |-> <<>>, result |-> <<>>,
            text |-> <<>>, trace |-> <<>>, met |-> FALSE, fetched |-> <<>>]

\* a call is between its first step and its return
Suspended(c) == c.pc \notin {"start", "done"}

\* the call goes on at pc having done what the events say
Went(c, pc, events) == [c EXCEPT !.pc = pc, !.trace = c.trace \o events]

\* variant: the next source is consulted whatever the list's length
AfterCatalog_NoLengthTest(c, r, stage, events, ifEmpty) ==
    IF r.threw THEN Went(c, "catch", events \o <<<<stage, "raised">>>>)
    ELSE Went([c EXCEPT !.tmdb = r.val], ifEmpty,
              events \o <<<<stage, IF Len(r.val) = 0 THEN "empty" ELSE "items">>>>)

\* where the orchestrator goes with what a catalog function returned or threw
AfterCatalog(c, r, stage, events, ifEmpty) ==
    IF r.threw THEN Went(c, "catch", events \o <<<<stage, "raised">>>>)
    ELSE IF Len(r.val) = 0
         THEN Went([c EXCEPT !.tmdb = <<>>], ifEmpty, events \o <<<<stage, "empty">>>>)
         ELSE Went([c EXCEPT !.tmdb = r.val], "gemini", events \o <<<<stage, "items">>>>)

\* fetchTmdbRecommendations is called: the limit is looked up, and unless it
\* is reached the genre lists are requested
GenreStart(p) ==
    /\ orch[p].pc = "start"
    /\ LET gate == dailyLimitGate(window, localStorage, now)
           met == \E q \in Procs \ {p} : Suspended(orch[q])
           c == [orch[p] EXCEPT !.met = met]
       IN  /\ localStorage' = gate.ls
           /\ orch' = [orch EXCEPT ![p] =
                  IF gate.val
                  THEN Went(c, "popular", <<<<"genre", "limit">>, <<"genre", "empty">>>>)
                  ELSE Went(c, "genre_net", <<<<"genre", "request">>>>)]
    /\ UNCHANGED <<window, now, ret, shown, profile, reranker>>

\* its requests are answered: a failure is caught, matching genres lead to the
\* selection among the discover results, no match to fetchPopularContent
GenreNet(p, lists) ==
    /\ orch[p].pc = "genre_net"
    /\ \E threw \in BOOLEAN, matched \in BOOLEAN, items \in lists :
         LET reply == CatalogReply(threw, matched, items)
             gate == dailyLimitGate(window, localStorage, now)
         IN  IF threw \/ matched
             THEN \E r \in fetchTmdbRecommendationsTry(window, localStorage, now, reply) :
                     /\ localStorage' = r.ls
                     /\ orch' = [orch EXCEPT ![p] =
                            AfterCatalog(
                                [@ EXCEPT !.fetched = IF threw THEN <<>> ELSE items],
                                r, "genre",
                                <<<<"genre", IF threw THEN "threw" ELSE "matched">>>>,
                                "popular")]
             ELSE IF gate.val
             THEN \E r \in fetchTmdbRecommendationsTry(window, gate.ls, now,
                                                       CatalogReply(FALSE, FALSE, <<>>)) :
                     /\ localStorage' = r.ls
                     /\ orch' = [orch EXCEPT ![p] =
                            AfterCatalog(@, r, "genre",
                                <<<<"genre", "nomatch">>, <<"nested", "limit">>>>,
                                "popular")]
             ELSE /\ localStorage' = gate.ls
                  /\ orch' = [orch EXCEPT ![p] =
                         Went(@, "nested_net",
                              <<<<"genre", "nomatch">>, <<"nested", "request">>>>)]
    /\ UNCHANGED <<window, now, ret, shown, profile, reranker>>

\* the requests of the fetchPopularContent called by fetchTmdbRecommendations
\* are answered: it selects, and fetchTmdbRecommendations selects again
NestedNet(p, lists) ==
    /\ orch[p].pc = "nested_net"
    /\ \E threw \in BOOLEAN, items \in lists :
         \E inner \in fetchPopularContentTry(window, localStorage, now,
                                             CatalogReply(threw, FALSE, items)) :
           \E r \in fetchTmdbRecommendationsTry(window, inner.ls, now,
                                                CatalogReply(inner.threw, FALSE, inner.val)) :
             /\ localStorage' = r.ls
             /\ orch' = [orch EXCEPT ![p] =
                    AfterCatalog(
                        [@ EXCEPT !.fetched = IF threw THEN <<>> ELSE items],
                        r, "genre",
                        <<<<"nested", IF threw THEN "threw" ELSE "answered">>>>,
                        "popular")]
    /\ UNCHANGED <<window, now, ret, shown, profile, reranker>>

\* fetchPopularContent is called by the orchestrator
PopularStart(p) ==
    /\ orch[p].pc = "popular"
    /\ LET gate == dailyLimitGate(window, localStorage, now)
       IN  /\ localStorage' = gate.ls
           /\ orch' = [orch EXCEPT ![p] =
                  IF gate.val
                  THEN Went(@, "mock", <<<<"popular", "limit">>, <<"popular", "empty">>>>)
                  ELSE Went(@, "popular_net", <<<<"popular", "request">>>>)]
    /\ UNCHANGED <<window, now, ret, shown, profile, reranker>>

PopularNet(p, lists) ==
    /\ orch[p].pc = "popular_net"
    /\ \E threw \in BOOLEAN, items \in lists :
         \E r \in fetchPopularContentTry(window, localStorage, now,
                                         CatalogReply(threw, FALSE, items)) :
             /\ localStorage' = r.ls
             /\ orch' = [orch EXCEPT ![p] =
                    AfterCatalog(
                        [@ EXCEPT !.fetched = IF threw THEN <<>> ELSE items],
                        r, "popular",
                        <<<<"popular", IF threw THEN "threw" ELSE "answered">>>>,
                        "mock")]
    /\ UNCHANGED <<window, now, ret, shown, profile, reranker>>

\* mock-data and daily-choices are imported and the dataset is selected from,
\* the catalog having returned nothing or an exception having been caught
MockFallback(p) ==
    /\ orch[p].pc \in {"mock", "catch"}
    /\ \E r \in mockFallback(window, localStorage, now) :
         /\ localStorage' = r.ls
         /\ orch' = [orch EXCEPT ![p] =
                Went([@ EXCEPT !.result = r.val], "done", <<<<"mock", "select">>>>)]
    /\ UNCHANGED <<window, now, ret, shown, profile, reranker>>

\* getGeminiPersonalizedRecommendations is called: without a key it returns
\* the candidates, with one it posts its prompt
GeminiStart(p, keys) ==
    /\ orch[p].pc = "gemini"
    /\ \E key \in keys :
         LET c == orch[p]
             gem == getGeminiPersonalizedRecommendations(
                        FALSE, GeminiReply(FALSE, <<>>), c.tmdb)
         IN  orch' = [orch EXCEPT ![p] =
                IF key THEN Went(c, "gemini_net", <<<<"gemini", "request">>>>)
                ELSE Went([c EXCEPT !.final = finalRecommendations(gem, c.tmdb)],
                          "final", <<<<"gemini", "nokey">>>>)]
    /\ UNCHANGED <<window, localStorage, now, ret, shown, profile, reranker>>

GeminiNet(p, texts) ==
    /\ orch[p].pc = "gemini_net"
    /\ \E threw \in BOOLEAN, text \in texts :
         LET reply == GeminiReply(threw, text)
             c == orch[p]
             gem == getGeminiPersonalizedRecommendations(TRUE, reply, c.tmdb)
         IN  orch' = [orch EXCEPT ![p] =
                Went([c EXCEPT !.final = finalRecommendations(gem, c.tmdb),
                               !.text = IF threw THEN <<>> ELSE text],
                     "final",
                     <<<<"gemini", IF threw THEN "threw" ELSE "answered">>>>)]
    /\ UNCHANGED <<window, localStorage, now, ret, shown, profile, reranker>>

\* daily-choices is imported and the final list is selected from
FinalSelect(p) ==
    /\ orch[p].pc = "final"
    /\ \E r \in getRandomUnchosenSelection(window, localStorage, now,
                                           orch[p].final, RecommendationCount) :
         /\ localStorage' = r.ls
         /\ orch' = [orch EXCEPT ![p] =
                Went([@ EXCEPT !.result = r.val], "done", <<<<"final", "select">>>>)]
    /\ UNCHANGED <<window, now, ret, shown, profile, reranker>>

\* searchTmdbContent is called instead: the limit is looked up, and unless it
\* is reached the two searches are requested
SearchStart(p) ==
    /\ orch[p].pc = "start"
    /\ LET gate == dailyLimitGate(window, localStorage, now)
       IN  /\ localStorage' = gate.ls
           /\ orch' = [orch EXCEPT ![p] =
                  IF gate.val
                  THEN Went(@, "done", <<<<"search", "limit">>, <<"search", "empty">>>>)
                  ELSE Went(@, "search_net", <<<<"search", "request">>>>)]
    /\ UNCHANGED <<window, now, ret, shown, profile, reranker>>

\* they are answered, or one fails
SearchNet(p, lists) ==
    /\ orch[p].pc = "search_net"
    /\ \E threw \in BOOLEAN, items \in lists :
         \E r \in searchTmdbContentTry(window, localStorage, now,
                                       CatalogReply(threw, FALSE, items)) :
             /\ localStorage' = r.ls
             /\ orch' = [orch EXCEPT ![p] =
                    Went([@ EXCEPT !.result = r.val,
                                   !.fetched = IF threw THEN <<>> ELSE items],
                         "done",
                         <<<<"search", IF threw THEN "threw" ELSE "answered">>,
                           <<"search", IF Len(r.val) = 0 THEN "empty" ELSE "items">>>>)]
    /\ UNCHANGED <<window, now, ret, shown, profile, reranker>>

----------------------------------------------------------------------------
(* The preference updater: updateUserProfile of recommendations and          *)
(* updateUserProfileWithInteraction.  A genre label is a number; the item   *)
(* looked up is found or not, and genres is its genre list when found.      *)

\* the cap of updateUserProfile and of updateUserProfileWithInteraction
ProfileCap == 15
InteractionCap == 10

Actions == {"like", "dislike", "superlike", "skip"}

\* for (const genre of genres) if (!newPreferences.includes(genre)) push
RECURSIVE PushNew(_, _)
PushNew(newPreferences, genres) ==
    IF genres = <<>> THEN newPreferences
    ELSE PushNew(IF Head(genres) \in Range(newPreferences) THEN newPreferences
                 ELSE Append(newPreferences, Head(genres)),
                 Tail(genres))

\* variant: the list is not cut to the cap
updateUserProfile_Uncapped(currentPreferences, action, found, genres) ==
    LET newPreferences ==
            IF action \in {"like", "superlike"} /\ found
            THEN PushNew(currentPreferences, genres)
            ELSE currentPreferences
    IN  Unique(newPreferences)

\* variant: the genres of a liked item are put in front
updateUserProfile_Prepends(currentPreferences, action, found, genres) ==
    LET newPreferences ==
            IF action \in {"like", "superlike"} /\ found
            THEN genres \o currentPreferences
            ELSE currentPreferences
    IN  Slice0(Unique(newPreferences), ProfileCap)

\* variant: a skip counts as a like
updateUserProfile_SkipLikes(currentPreferences, action, found, genres) ==
    LET newPreferences ==
            IF action \in {"like", "superlike", "skip"} /\ found
            THEN PushNew(currentPreferences, genres)
            ELSE currentPreferences
    IN  Slice0(Unique(newPreferences), ProfileCap)

\* variant: a dislike takes the item's genres out of the list
updateUserProfile_DislikeRemoves(currentPreferences, action, found, genres) ==
    LET kept(genre) == genre \notin Range(genres)
        newPreferences ==
            IF action \in {"like", "superlike"} /\ found
            THEN PushNew(currentPreferences, genres)
            ELSE IF action = "dislike" /\ found
            THEN SelectSeq(currentPreferences, kept)
            ELSE currentPreferences
    IN  Slice0(Unique(newPreferences), ProfileCap)

\* found: allMediaItems.find(m => m.id === interaction.itemId) is an item
updateUserProfile(currentPreferences, action, found, genres) ==
    LET newPreferences ==
            IF action \in {"like", "superlike"} /\ found
            THEN PushNew(currentPreferences, genres)
            ELSE currentPreferences
    IN  Slice0(Unique(newPreferences), ProfileCap)

\* variant: an item that is not found is handled as in updateUserProfile
updateUserProfileWithInteraction_NoEarlyReturn(currentPreferences, action, found, genres) ==
    LET newPreferences ==
            IF action \in {"like", "superlike"} /\ found
            THEN PushNew(currentPreferences, genres)
            ELSE currentPreferences
    IN  Slice0(Unique(newPreferences), InteractionCap)

\* found: getMediaDetails(interaction.itemId) is an item and not null
updateUserProfileWithInteraction(currentPreferences, action, found, genres) ==
    IF ~found THEN currentPreferences
    ELSE LET newPreferences ==
                 IF action \in {"like", "superlike"}
                 THEN PushNew(currentPreferences, genres)
                 ELSE currentPreferences
         IN  Slice0(Unique(newPreferences), InteractionCap)

----------------------------------------------------------------------------
(* The client: one step per call *)

FreshStore == [indicai_chosen_today |-> <<>>, indicai_last_reset_date |-> NoDate]

\* a store holding k records added on day d
StoreOf(k, d) ==
    [indicai_chosen_today |-> [i \in 1..k |-> ChosenItem(i, d)],
     indicai_last_reset_date |-> d]

\* sizes of the initial store: empty, one record, one below the limit, full
InitCounts == {0, 1, DAILY_LIMIT - 1, DAILY_LIMIT}

\* ret before any call.  pre and at are the storage and the clock the call found.
NoCall == [op |-> "none", id |-> 0, items |-> <<>>, count |-> 0,
           pre |-> FreshStore, at |-> 0,
           bool |-> FALSE, num |-> 0, recs |-> <<>>, out |-> <<>>]

Call(op) == [NoCall EXCEPT !.op = op, !.pre = localStorage, !.at = now]

\* no call of the orchestrator has begun, no preference update and no
\* response has been handled
NoCalls == [p \in Procs |-> NewCall]

NoUpdate == [site |-> "none", action |-> "skip", found |-> FALSE,
             genres |-> <<>>, given |-> <<>>]

NoProfile == [prefs |-> <<>>, call |-> NoUpdate]

NoParse == [parsed |-> FALSE, response |-> <<>>, availableItems |-> <<>>,
            ids |-> <<>>]

Init ==
    /\ window \in BOOLEAN
    /\ now \in Days
    /\ localStorage \in
          IF window
          THEN {FreshStore} \cup {StoreOf(k, d) : k \in InitCounts, d \in Days}
          ELSE {FreshStore}
    /\ ret = NoCall
    /\ shown = {}
    /\ orch = NoCalls
    /\ profile = NoProfile
    /\ reranker = NoParse

TodayCall ==
    LET r == getChosenItemsToday(window, localStorage, now)
    IN  /\ localStorage' = r.ls
        /\ ret' = [Call("today") EXCEPT !.recs = r.val]
        /\ UNCHANGED <<window, now, shown, aside>>

TryAddCall ==
    \E id \in Ids :
        LET r == addChosenItem(window, localStorage, now, id)
        IN  /\ localStorage' = r.ls
            /\ ret' = [Call("tryAdd") EXCEPT !.id = id, !.bool = r.val]
            /\ UNCHANGED <<window, now, shown, aside>>

RemainingCall ==
    LET r == getRemainingChoices(window, localStorage, now)
    IN  /\ localStorage' = r.ls
        /\ ret' = [Call("remaining") EXCEPT !.num = r.val]
        /\ UNCHANGED <<window, now, shown, aside>>

LimitReachedCall ==
    LET r == isDailyLimitReached(window, localStorage, now)
    IN  /\ localStorage' = r.ls
        /\ ret' = [Call("limitReached") EXCEPT !.bool = r.val]
        /\ UNCHANGED <<window, now, shown, aside>>

\* a selection, apart from its observation
Select(items, count) ==
    \E r \in getRandomUnchosenSelection(window, localStorage, now, items, count) :
        /\ localStorage' = r.ls
        /\ ret' = [Call("select") EXCEPT !.items = items, !.count = count,
                                         !.out = r.val]
        /\ UNCHANGED <<window, now>>

SelectCall ==
    \E items \in SeqUpTo(CandIds, MaxCand), count \in Counts :
        /\ Select(items, count)
        /\ UNCHANGED <<shown, aside>>

\* the calendar day changes between two calls
DayChange ==
    /\ now' \in Days \ {now}
    /\ shown' = {}
    /\ UNCHANGED <<window, localStorage, ret, aside>>

Next ==
    \/ TodayCall
    \/ TryAddCall
    \/ RemainingCall
    \/ LimitReachedCall
    \/ SelectCall
    \/ DayChange

Spec == Init /\ [][Next]_vars

----------------------------------------------------------------------------
(* A day of recommendations observed: a browser client asks for one page   *)
(* of the catalog after another, the selector is called with the           *)
(* orchestrator's target count, and shown collects what it returned.       *)

\* consecutive pages of the catalog, together holding more ids than DAILY_LIMIT
Pages ==
    {[i \in 1..PageLen |-> b * PageLen + i] : b \in 0..(DAILY_LIMIT \div PageLen)}

InitDay == Init /\ window

ShownSelect ==
    \E items \in Pages :
        /\ Select(items, RecommendationCount)
        /\ shown' = shown \cup Range(ret'.out)
        /\ UNCHANGED aside

NextDay ==
    \/ ShownSelect
    \/ DayChange

SpecDay == InitDay /\ [][NextDay]_vars

----------------------------------------------------------------------------
(* The re-ranker's id extraction on its own: parseGeminiResponse applied to *)
(* a response text and a candidate list.                                    *)

\* the ids 1..n in order, and a number that is no candidate's id
Ramp(n) == [i \in 1..n |-> i]
Unknown == RerankLimit + 3

\* candidate lists with fewer and with more items than RerankLimit
CandidateLists ==
    {Ramp(n) : n \in {0, 1, 2, RerankLimit, RerankLimit + 2}}

\* Response texts: every short text over two ids, an unknown number and a
\* word, and texts naming about RerankLimit ids upwards or downwards, with a
\* short text before and after.
ShortTexts == SeqUpTo({1, 2, Unknown, Word}, MaxText)
Margins == SeqUpTo({1, 2, Unknown, Word}, 1)
LongTexts ==
    {pre \o body \o post :
        pre \in Margins, post \in Margins,
        body \in UNION {{Ramp(n), Reverse(Ramp(n))} :
                           n \in (RerankLimit - 1)..(RerankLimit + 2)}}
Responses == ShortTexts \cup LongTexts

\* nothing but the component under study has acted
Quiet ==
    /\ window = FALSE
    /\ now = 1
    /\ localStorage = FreshStore
    /\ ret = NoCall
    /\ shown = {}

\* a response has arrived and is about to be read
InitParse ==
    /\ Quiet
    /\ orch = NoCalls
    /\ profile = NoProfile
    /\ \E response \in Responses, availableItems \in CandidateLists :
         reranker = [NoParse EXCEPT !.response = response,
                                    !.availableItems = availableItems]

ParseCall ==
    /\ ~reranker.parsed
    /\ reranker' = [reranker EXCEPT
           !.parsed = TRUE,
           !.ids = parseGeminiResponse(reranker.response, reranker.availableItems)]
    /\ UNCHANGED <<window, localStorage, now, ret, shown, orch, profile>>

NextParse == ParseCall

SpecParse == InitParse /\ [][NextParse]_vars

----------------------------------------------------------------------------
(* The preference list of one user: interactions are folded into it one at  *)
(* a time, each through either updater, the list returned being the list    *)
(* passed to the next.                                                      *)

\* Lists a caller may hold at first: of lengths around both caps, and some
\* with the first label repeated.
PrefLengths ==
    {0, 1, InteractionCap - 1, InteractionCap + 1, ProfileCap - 1, ProfileCap + 1}
PrefLists ==
    {Ramp(n) : n \in PrefLengths}
        \cup {Ramp(n) \o <<1>> : n \in PrefLengths \ {0}}
        \cup {<<1, 1>>}

\* genre labels of the items interacted with: one that every list above
\* holds unless empty, and two that none holds
Drama == 1
Comedy == ProfileCap + 2
ItemGenres == {Drama, Comedy, ProfileCap + 3}

NoRepeat(s) == \A i, j \in 1..Len(s) : i # j => s[i] # s[j]

\* What the lookup of the interacted item gives: nothing, or an item whose
\* genre labels differ, or one that bears the same label twice.
Lookups ==
    {[found |-> FALSE, genres |-> <<>>]}
        \cup {[found |-> TRUE, genres |-> g] :
                 g \in {h \in SeqUpTo(ItemGenres, MaxGenres) : NoRepeat(h)}
                          \cup {<<Comedy, Comedy>>}}

InitPrefs ==
    /\ Quiet
    /\ orch = NoCalls
    /\ reranker = NoParse
    /\ \E prefs \in PrefLists : profile = [NoProfile EXCEPT !.prefs = prefs]

Folded(site, action, item, prefs) ==
    [prefs |-> prefs,
     call |-> [site |-> site, action |-> action, found |-> item.found,
               genres |-> item.genres, given |-> profile.prefs]]

UpdateUserProfileCall ==
    /\ \E action \in Actions, item \in Lookups :
         profile' = Folded("updateUserProfile", action, item,
                       updateUserProfile(profile.prefs, action,
                                         item.found, item.genres))
    /\ UNCHANGED <<window, localStorage, now, ret, shown, orch, reranker>>

UpdateWithInteractionCall ==
    /\ \E action \in Actions, item \in Lookups :
         profile' = Folded("updateUserProfileWithInteraction", action, item,
                       updateUserProfileWithInteraction(profile.prefs, action,
                                                        item.found, item.genres))
    /\ UNCHANGED <<window, localStorage, now, ret, shown, orch, reranker>>

NextPrefs ==
    \/ UpdateUserProfileCall
    \/ UpdateWithInteractionCall

SpecPrefs == InitPrefs /\ [][NextPrefs]_vars

----------------------------------------------------------------------------
(* One call of getPersonalizedRecommendations, from every quota state, with *)
(* every outcome of its requests.                                           *)

\* what the catalog has: ids above those of the bundled dataset
CatalogItems == <<DAILY_LIMIT + 1, DAILY_LIMIT + 2, DAILY_LIMIT + 3>>

\* lists a catalog request may return: none, some or all of the catalog's
\* items, or one item twice (a film and a series of the same id)
CatalogLists ==
    {Slice0(CatalogItems, n) : n \in 0..Len(CatalogItems)}
        \cup {<<CatalogItems[1], CatalogItems[1]>>}

\* response texts of the generative service: numbers only, naming the first
\* and the last item of the catalog and an id the catalog does not have
GeminiTexts == SeqUpTo({CatalogItems[1], CatalogItems[3], Unknown}, MaxText)

GetRecommendations(p, lists, keys, texts) ==
    \/ GenreStart(p)
    \/ GenreNet(p, lists)
    \/ NestedNet(p, lists)
    \/ PopularStart(p)
    \/ PopularNet(p, lists)
    \/ MockFallback(p)
    \/ GeminiStart(p, keys)
    \/ GeminiNet(p, texts)
    \/ FinalSelect(p)

NextOrch == GetRecommendations(1, CatalogLists, BOOLEAN, GeminiTexts)

\* The stores of Init, and stores where an item of the catalog was chosen
\* last: alone, or leaving one choice.
InitOrch ==
    /\ window \in BOOLEAN
    /\ now \in Days
    /\ localStorage \in
          IF window
          THEN {FreshStore}
                  \cup {StoreOf(k, d) : k \in InitCounts, d \in Days}
                  \cup {addChosenItem(TRUE, StoreOf(k, d), d, CatalogItems[1]).ls :
                            k \in {0, DAILY_LIMIT - 2}, d \in Days}
          ELSE {FreshStore}
    /\ ret = NoCall
    /\ shown = {}
    /\ orch = NoCalls
    /\ profile = NoProfile
    /\ reranker = NoParse

SpecOrch == InitOrch /\ [][NextOrch]_vars

----------------------------------------------------------------------------
(* One call of getPersonalizedRecommendations by a browser client, the      *)
(* catalog answering with about as many items as the orchestrator asks for, *)
(* some of them chosen today.                                               *)

\* answers of 9 to 11 items when RecommendationCount is 10, their ids from
\* RecommendationCount on
LongLists ==
    {[i \in 1..n |-> RecommendationCount - 1 + i] :
        n \in (RecommendationCount - 1)..(RecommendationCount + 1)}

\* stores leaving more choices than the orchestrator asks for, as many, and
\* one fewer; the store of RecommendationCount records holds an id of the
\* catalog
InitTwice ==
    /\ window = TRUE
    /\ now = 1
    /\ localStorage \in
          {StoreOf(k, now) :
              k \in {0, DAILY_LIMIT - RecommendationCount,
                     DAILY_LIMIT - RecommendationCount + 1}}
    /\ ret = NoCall
    /\ shown = {}
    /\ orch = NoCalls
    /\ profile = NoProfile
    /\ reranker = NoParse

NextTwice == GetRecommendations(1, LongLists, BOOLEAN, {<<>>})

SpecTwice == InitTwice /\ [][NextTwice]_vars

----------------------------------------------------------------------------
(* One call by the client, of getPersonalizedRecommendations or of          *)
(* searchTmdbContent.                                                       *)

NextCatalog ==
    \/ GetRecommendations(1, CatalogLists, BOOLEAN, GeminiTexts)
    \/ SearchStart(1)
    \/ SearchNet(1, CatalogLists)

SpecCatalog == InitOrch /\ [][NextCatalog]_vars

----------------------------------------------------------------------------
(* Two calls of getPersonalizedRecommendations by one browser client, one   *)
(* choice short of the limit, interleaved at their awaits with each other   *)
(* and with addChosenItem.  The event loop runs a step as long as there is  *)
(* one to run.                                                              *)

RaceLists == {<<>>, <<CatalogItems[1]>>}
RaceTexts == {<<>>}
RaceKeys == {TRUE}

InitRace ==
    /\ window = TRUE
    /\ now = 1
    /\ localStorage = StoreOf(DAILY_LIMIT - 1, now)
    /\ ret = NoCall
    /\ shown = {}
    /\ orch = NoCalls
    /\ profile = NoProfile
    /\ reranker = NoParse

\* the client registers a choice, of an item of the static dataset or of
\* the catalog's, or tries to
RegisterChoice ==
    /\ \E id \in {DAILY_LIMIT, CatalogItems[1]} :
         localStorage' = addChosenItem(window, localStorage, now, id).ls
    /\ UNCHANGED <<window, now, ret, shown, aside>>

NextRace ==
    \/ \E p \in Procs : GetRecommendations(p, RaceLists, RaceKeys, RaceTexts)
    \/ RegisterChoice

SpecRace == InitRace /\ [][NextRace]_vars /\ WF_vars(NextRace)

----------------------------------------------------------------------------
(* Vocabulary of the properties.  ret.pre and ret.at are the storage and   *)
(* the day the last call found; localStorage is the storage it left.       *)

\* the records a storage holds for day d
TodayOf(ls, d) ==
    IF ls.indicai_last_reset_date = d THEN ls.indicai_chosen_today ELSE <<>>

IdsOf(recs) == {recs[i].id : i \in 1..Len(recs)}

\* today's records before and after the last call
Before == TodayOf(ret.pre, ret.at)
After == TodayOf(localStorage, ret.at)

Stored == localStorage.indicai_chosen_today

\* positions of the candidates whose id is not in a set of ids
PositionsNotIn(items, ids) == {i \in 1..Len(items) : items[i] \notin ids}

\* out lists items taken from distinct positions among P of the candidates
PickedFrom(out, items, P) ==
    \E f \in [1..Len(out) -> P] :
        /\ \A i, j \in 1..Len(out) : i # j => f[i] # f[j]
        /\ \A i \in 1..Len(out) : items[f[i]] = out[i]

----------------------------------------------------------------------------
(* C1 *)

----------------------------------------------------------------------------
(* C2 *)

----------------------------------------------------------------------------
(* C3 *)

\* C3: in every reachable state the number of chosen records stored (for the
\* current day or a stale one) is at most DAILY_LIMIT.
C3_StoredAtMostLimit ==
    /\ Len(Stored) <= DAILY_LIMIT
    /\ Len(TodayOf(localStorage, now)) <= DAILY_LIMIT

\* tryAdd filled the store to the limit, or was refused at the limit
C3_Witness ==
    /\ window
    /\ ret.op = "tryAdd"
    /\ Len(Stored) = DAILY_LIMIT
    /\ \/ Len(Before) = DAILY_LIMIT - 1
       \/ (~ret.bool /\ ret.id \notin IdsOf(Before))

----------------------------------------------------------------------------
(* C4 *)

\* C4 as stated: tryAdd(id) for an id already in today's records returns
\* true and leaves the records unchanged, in every store state.
C4_PresentReturnsTrue ==
    (window /\ ret.op = "tryAdd" /\ ret.id \in IdsOf(Before)) =>
        (ret.bool /\ Stored = Before)

\* C4 as amended: tryAdd(id) for an id already in today's records leaves the
\* records unchanged in every store state; it returns true when today's count
\* is below DAILY_LIMIT and false when the count has reached it (the limit is
\* tested before the id is looked up).
C4_PresentUnchanged ==
    (window /\ ret.op = "tryAdd" /\ ret.id \in IdsOf(Before)) =>
        /\ Stored = Before
        /\ localStorage = ret.pre
        /\ ret.bool = (Len(Before) < DAILY_LIMIT)

\* tryAdd of an id already present was answered false at the limit
C4_Witness ==
    /\ window
    /\ ret.op = "tryAdd"
    /\ ret.id \in IdsOf(Before)
    /\ Len(Before) = DAILY_LIMIT
    /\ ~ret.bool

----------------------------------------------------------------------------
(* C5 *)

\* C5: tryAdd(id) for an id not in today's records returns false and leaves
\* the records unchanged when today's count is at the limit; otherwise it
\* returns true and the records become the previous ones followed by one new
\* record for id.
C5_AbsentAppendsOrRefuses ==
    (window /\ ret.op = "tryAdd" /\ ret.id \notin IdsOf(Before)) =>
        IF Len(Before) >= DAILY_LIMIT
        THEN ~ret.bool /\ Stored = Before
        ELSE /\ ret.bool
             /\ Stored = Append(Before, ChosenItem(ret.id, ret.at))
             /\ Len(Stored) = Len(Before) + 1

\* an id was appended behind earlier records
C5_Witness ==
    /\ window
    /\ ret.op = "tryAdd"
    /\ ret.id \notin IdsOf(Before)
    /\ Len(Before) > 1
    /\ ret.bool
    /\ Stored[Len(Stored)].id = ret.id

----------------------------------------------------------------------------
(* C6 *)

NoDuplicateIds ==
    \A i, j \in 1..Len(Stored) : i # j => Stored[i].id # Stored[j].id

\* the step is a tryAdd of the id the previous call added, on the same day
SecondTryAdd ==
    /\ window
    /\ ret.op = "tryAdd"
    /\ ret'.op = "tryAdd"
    /\ ret'.id = ret.id
    /\ ret'.at = ret.at
    /\ ret'.pre = localStorage

\* C6: two tryAdd(id) in a row on one day change the stored count by at most
\* 1, the second leaves the storage as the first left it, and the records
\* never hold one id twice.
C6_TryAddIdempotent ==
    /\ []NoDuplicateIds
    /\ [][SecondTryAdd =>
            /\ localStorage' = localStorage
            /\ Len(TodayOf(localStorage', ret'.at)) - Len(Before) \in {0, 1}]_vars

\* tryAdd of an id no initial store holds found that id as today's last
\* record and left the storage as it was
C6_Witness ==
    /\ window
    /\ ret.op = "tryAdd"
    /\ ret.id = DAILY_LIMIT + 1
    /\ Before # <<>>
    /\ Before[Len(Before)].id = ret.id
    /\ ret.bool
    /\ localStorage = ret.pre

----------------------------------------------------------------------------
(* C7 *)

\* C7: every quota operation leaves the stored date equal to the current date
\* and no record of another date in the store or in its result; when it found
\* a stored date other than the current one it acted on an empty list:
\* remaining() is DAILY_LIMIT, today() is empty, limitReached() is false,
\* tryAdd stores its record alone, select filters nothing out.
C7_DayReset ==
    (window /\ ret.op # "none") =>
        /\ localStorage.indicai_last_reset_date = ret.at
        /\ \A i \in 1..Len(Stored) : Stored[i].timestamp = ret.at
        /\ \A i \in 1..Len(ret.recs) : ret.recs[i].timestamp = ret.at
        /\ ret.pre.indicai_last_reset_date # ret.at =>
              /\ ret.op = "remaining" => ret.num = DAILY_LIMIT
              /\ ret.op = "today" => ret.recs = <<>>
              /\ ret.op = "limitReached" => ~ret.bool
              /\ ret.op = "tryAdd" =>
                    (ret.bool /\ Stored = <<ChosenItem(ret.id, ret.at)>>)
              /\ ret.op = "select" =>
                    (Stored = <<>> /\ Len(ret.out) = Min(ret.count, Len(ret.items)))

\* remaining() answered DAILY_LIMIT on finding a full list of another date
C7_Witness ==
    /\ window
    /\ ret.op = "remaining"
    /\ ret.pre.indicai_last_reset_date \in Days \ {ret.at}
    /\ Len(ret.pre.indicai_chosen_today) = DAILY_LIMIT
    /\ ret.num = DAILY_LIMIT
    /\ Stored = <<>>

----------------------------------------------------------------------------
(* C8 *)

\* C8: a selection made when today's count has reached the limit
\* (remaining() = 0) returns nothing, whatever the candidates and the count,
\* and no call made in that state lowers today's count, so this lasts until
\* the date changes.
C8_ExhaustedSelectsNothing ==
    (window /\ ret.op # "none" /\ Len(Before) >= DAILY_LIMIT) =>
        /\ Len(After) >= DAILY_LIMIT
        /\ ret.op = "select" => ret.out = <<>>

\* a selection with a positive count and a candidate not chosen today
\* returned nothing at the limit
C8_Witness ==
    /\ window
    /\ ret.op = "select"
    /\ Len(Before) = DAILY_LIMIT
    /\ ret.count > 0
    /\ PositionsNotIn(ret.items, IdsOf(Before)) # {}
    /\ ret.out = <<>>

----------------------------------------------------------------------------
(* C9 *)

\* C9: with storage available select returns min(count, remaining(), number
\* of candidates not in today's records) items when that is positive and none
\* otherwise; the items come from distinct positions of the candidates, and
\* none has an id that was in today's records.
C9_SelectCount ==
    (window /\ ret.op = "select") =>
        LET unchosen == PositionsNotIn(ret.items, IdsOf(Before))
            n == Min(Min(ret.count, DAILY_LIMIT - Len(Before)), Cardinality(unchosen))
        IN  /\ Len(ret.out) = (IF n > 0 THEN n ELSE 0)
            /\ PickedFrom(ret.out, ret.items, unchosen)
            /\ Range(ret.out) \cap IdsOf(Before) = {}

\* a selection dropped a chosen candidate and returned fewer items than asked
C9_Witness ==
    /\ window
    /\ ret.op = "select"
    /\ \E i \in 1..Len(ret.items) : ret.items[i] \in IdsOf(Before)
    /\ Len(ret.out) > 0
    /\ Len(ret.out) < ret.count
    /\ Len(ret.out) < Len(ret.items)

----------------------------------------------------------------------------
(* C10 *)

\* C10: without storage today() is empty, tryAdd returns true, remaining()
\* is DAILY_LIMIT, limitReached() is false, select returns min(count, number
\* of candidates) items from distinct positions of the unfiltered candidates,
\* and nothing is ever stored.
C10_NoStoragePermissive ==
    ~window =>
        /\ localStorage = FreshStore
        /\ ret.op = "today" => ret.recs = <<>>
        /\ ret.op = "tryAdd" => ret.bool
        /\ ret.op = "remaining" => ret.num = DAILY_LIMIT
        /\ ret.op = "limitReached" => ~ret.bool
        /\ ret.op = "select" =>
              /\ Len(ret.out) = Min(ret.count, Len(ret.items))
              /\ PickedFrom(ret.out, ret.items, 1..Len(ret.items))

\* without storage a selection returned the same id twice
C10_Witness ==
    /\ ~window
    /\ ret.op = "select"
    /\ Len(ret.out) > 1
    /\ ret.out[1] = ret.out[2]

----------------------------------------------------------------------------
(* C20 *)

\* remaining() as the claim defines it, from today's records after the call
RemainingToday == Max(0, DAILY_LIMIT - Len(After))

\* C20: with storage available, remaining() returns max(0, 20 - number of
\* today's chosen records), a number in 0..20, and limitReached() returns
\* true exactly when that number is 0.
C20_RemainingAndLimitReached ==
    window =>
        /\ ret.op = "remaining" =>
              /\ ret.num = RemainingToday
              /\ ret.num \in 0..DAILY_LIMIT
        /\ ret.op = "limitReached" => (ret.bool <=> RemainingToday = 0)

\* limitReached() answered true with DAILY_LIMIT records stored for today
C20_Witness ==
    /\ window
    /\ ret.op = "limitReached"
    /\ ret.bool
    /\ Len(After) = DAILY_LIMIT

----------------------------------------------------------------------------
(* C14 *)

\* the place of the first occurrence of a word in a text
FirstAt(text, word) ==
    CHOOSE i \in 1..Len(text) :
        text[i] = word /\ \A j \in 1..(i - 1) : text[j] # word

\* the numeric tokens of the last response that are a candidate's id
ValidTokens ==
    {t \in Range(reranker.response) :
        t # Word /\ t \in Range(reranker.availableItems)}

\* C14: the ids extracted from a response text are at most 10, distinct, all
\* ids of candidates and numeric tokens of the text, ordered by their first
\* appearance in the text, and a valid token is left out only when 10 valid
\* tokens appeared before it.
C14_FirstTenDistinctValid ==
    reranker.parsed =>
        LET ids == reranker.ids
            text == reranker.response
        IN  /\ Len(ids) <= 10
            /\ \A i, j \in 1..Len(ids) : i # j => ids[i] # ids[j]
            /\ Range(ids) \subseteq ValidTokens
            /\ \A i, j \in 1..Len(ids) :
                  i < j => FirstAt(text, ids[i]) < FirstAt(text, ids[j])
            /\ \A t \in ValidTokens \ Range(ids) :
                  /\ Len(ids) = 10
                  /\ FirstAt(text, t) > FirstAt(text, ids[10])

\* ten ids were extracted from a text that named a further candidate, a
\* candidate twice and something that is no candidate's id
C14_Witness ==
    /\ reranker.parsed
    /\ Len(reranker.ids) = 10
    /\ ValidTokens \ Range(reranker.ids) # {}
    /\ \E i, j \in 1..Len(reranker.response) :
          i # j /\ reranker.response[i] = reranker.response[j]
                /\ reranker.response[i] \in ValidTokens
    /\ Range(reranker.response) \ ValidTokens # {}

----------------------------------------------------------------------------
(* Vocabulary of the preference updater's properties *)

\* the last update: the list it was given, the list it returned, its cap
Given == profile.call.given
Returned == profile.prefs
Updated == profile.call.site # "none"
AtProfile == profile.call.site = "updateUserProfile"
AtInteraction == profile.call.site = "updateUserProfileWithInteraction"
Cap == IF AtProfile THEN ProfileCap ELSE InteractionCap
Liked == profile.call.action \in {"like", "superlike"}

\* s with every repetition of an earlier label removed
FirstOccurrences(s) ==
    LET first(i) == \A j \in 1..(i - 1) : s[j] # s[i]
        keep == {i \in 1..Len(s) : first(i)}
        nth(k) == CHOOSE i \in keep : Cardinality({j \in keep : j < i}) = k - 1
    IN  [k \in 1..Cardinality(keep) |-> s[nth(k)]]

\* the item's genres the given list does not hold, each once, in the item's order
FreshGenres ==
    LET isNew(genre) == genre \notin Range(Given)
    IN  FirstOccurrences(SelectSeq(profile.call.genres, isNew))

----------------------------------------------------------------------------
(* C15 *)

\* C15 as claimed: every list an updater returns is no longer than the cap of
\* the call site that returned it and holds no label twice.
C15_CappedAndDistinct ==
    Updated => Len(Returned) <= Cap /\ NoRepeat(Returned)

\* C15: every list updateUserProfile returns has at most 15 labels and none
\* twice; a list updateUserProfileWithInteraction returns has at most 10
\* labels and none twice when the item was resolved, or when the list passed
\* in was already that short and free of repetitions.
C15_CappedWhereNormalised ==
    Updated =>
        ((AtProfile \/ profile.call.found
             \/ (Len(Given) <= InteractionCap /\ NoRepeat(Given)))
            => Len(Returned) <= Cap /\ NoRepeat(Returned))

\* a like at updateUserProfile of an item with a new genre returned a list
\* of ProfileCap labels without that genre
C15_Witness ==
    /\ AtProfile
    /\ Liked
    /\ profile.call.found
    /\ Range(profile.call.genres) \ Range(Returned) # {}
    /\ Len(Returned) = ProfileCap

----------------------------------------------------------------------------
(* C16 *)

\* C16 as claimed: a like or superlike of a resolved item returns the given
\* list followed by the item's genres it does not hold, cut to the cap.
C16_GivenThenFresh ==
    (Updated /\ Liked /\ profile.call.found) =>
        Returned = Slice0(Given \o FreshGenres, Cap)

\* C16: a like or superlike of a resolved item returns the first occurrences
\* of the given list's labels in their order, followed by the item's genres
\* the list does not hold in the item's order, cut to the cap; the list
\* <<Drama>> and a liked item of genres <<Drama, Comedy>> give <<Drama, Comedy>>.
C16_FirstOccurrencesThenFresh ==
    (Updated /\ Liked /\ profile.call.found) =>
        /\ Returned = Slice0(FirstOccurrences(Given) \o FreshGenres, Cap)
        /\ (Given = <<Drama>> /\ profile.call.genres = <<Drama, Comedy>>)
              => Returned = <<Drama, Comedy>>

\* a like of a resolved item with a new genre, on a list that repeats a label
C16_Witness ==
    /\ Updated
    /\ Liked
    /\ profile.call.found
    /\ ~NoRepeat(Given)
    /\ FreshGenres # <<>>
    /\ Returned = FirstOccurrences(Given) \o FreshGenres

----------------------------------------------------------------------------
(* C17 *)

\* C17 as claimed: a dislike or skip returns the list passed in.
C17_ReturnsGiven ==
    (Updated /\ ~Liked) => Returned = Given

\* C17: a dislike or skip adds no label: it returns the first occurrences of
\* the given list's labels cut to the cap of the call site (the given list
\* itself when updateUserProfileWithInteraction cannot resolve the item), so
\* it returns the list passed in whenever that list repeats no label and is
\* within the cap.
C17_NormalisesOnly ==
    (Updated /\ ~Liked) =>
        /\ Returned = IF AtInteraction /\ ~profile.call.found THEN Given
                      ELSE Slice0(FirstOccurrences(Given), Cap)
        /\ (NoRepeat(Given) /\ Len(Given) <= Cap) => Returned = Given

\* a skip of a resolved item with a genre the list does not hold left a
\* list within the cap as it was
C17_Witness ==
    /\ Updated
    /\ profile.call.action = "skip"
    /\ profile.call.found
    /\ FreshGenres # <<>>
    /\ Given # <<>>
    /\ Returned = Given

----------------------------------------------------------------------------
(* C18 *)

\* C18 as claimed: when the item is not found, the list passed in is returned
\* unchanged, whatever the action, the list and the call site.
C18_UnresolvedReturnsGiven ==
    (Updated /\ ~profile.call.found) => Returned = Given

\* C18: when the item is not found, updateUserProfileWithInteraction returns
\* the list passed in unchanged, whatever the action and the list;
\* updateUserProfile returns the first occurrences of its labels cut to 15,
\* which is the list passed in when it repeats no label and has at most 15.
C18_UnresolvedBySite ==
    (Updated /\ ~profile.call.found) =>
        /\ AtInteraction => Returned = Given
        /\ AtProfile =>
              /\ Returned = Slice0(FirstOccurrences(Given), ProfileCap)
              /\ (NoRepeat(Given) /\ Len(Given) <= ProfileCap) => Returned = Given

\* updateUserProfileWithInteraction, not resolving a liked item, returned a
\* list longer than its cap, or with a repeated label, as it was
C18_Witness ==
    /\ AtInteraction
    /\ ~profile.call.found
    /\ Liked
    /\ Len(Given) > InteractionCap \/ ~NoRepeat(Given)
    /\ Returned = Given

----------------------------------------------------------------------------
(* Vocabulary of the orchestrator's properties *)

Stages == {"genre", "nested", "popular", "gemini", "mock", "final", "search"}

\* the call did this at that stage; it entered the stage
Did(c, stage, event) == <<stage, event>> \in Range(c.trace)
Entered(c, stage) == \E i \in 1..Len(c.trace) : c.trace[i][1] = stage

----------------------------------------------------------------------------
(* C11 *)

----------------------------------------------------------------------------
(* C12 *)

\* C12: a call that got nothing from the genre search and nothing from the
\* popular query returns items of the static dataset only, at most 10 of
\* them, and never calls the re-ranker.
C12_EmptyCatalogFallsBack ==
    \A p \in Procs :
        LET c == orch[p]
        IN  (c.pc = "done" /\ Did(c, "genre", "empty") /\ Did(c, "popular", "empty")) =>
                /\ Range(c.result) \subseteq Range(mockMediaItems)
                /\ Range(c.result) \cap Range(CatalogItems) = {}
                /\ Len(c.result) <= 10
                /\ ~Entered(c, "gemini")

\* both catalog requests were answered with nothing, and 10 items of the
\* static dataset were returned
C12_Witness ==
    /\ orch[1].pc = "done"
    /\ Did(orch[1], "genre", "matched")
    /\ Did(orch[1], "genre", "empty")
    /\ Did(orch[1], "popular", "answered")
    /\ Did(orch[1], "popular", "empty")
    /\ Len(orch[1].result) = 10

----------------------------------------------------------------------------
(* C13 *)

\* the candidates a response text names, each once, in the text's order
Named(c) ==
    LET isCandidate(word) == word # Word /\ word \in Range(c.tmdb)
    IN  FirstOccurrences(SelectSeq(c.text, isCandidate))

\* C13: the list handed to the selector after the re-ranking step is the
\* candidates the response names, in the response's order, ids of no
\* candidate dropped, when the re-ranker answered and named a candidate; it
\* is the catalog list as it was when the re-ranker's call failed, named no
\* candidate or had no key.  The last and the first of three candidates
\* named in that order give those two in that order.
C13_HandedToSelector ==
    \A p \in Procs :
        LET c == orch[p]
        IN  (c.pc \in {"final", "done"} /\ Entered(c, "gemini")) =>
                /\ c.final = IF Did(c, "gemini", "answered") /\ Named(c) # <<>>
                             THEN Named(c) ELSE c.tmdb
                /\ (c.tmdb = CatalogItems
                        /\ c.text = <<CatalogItems[3], CatalogItems[1]>>)
                      => c.final = <<CatalogItems[3], CatalogItems[1]>>

\* three candidates in the catalog's order were re-ranked by a response that
\* named the last, the first and an id of no candidate
C13_Witness ==
    /\ orch[1].pc = "done"
    /\ orch[1].tmdb = CatalogItems
    /\ Did(orch[1], "gemini", "answered")
    /\ Unknown \in Range(orch[1].text)
    /\ orch[1].final = <<CatalogItems[3], CatalogItems[1]>>

----------------------------------------------------------------------------
(* C19 *)

----------------------------------------------------------------------------
(* C21 *)

\* whatever the call did at a stage, it had done that event before
Earlier(c, event, stage) ==
    \A j \in 1..Len(c.trace) :
        c.trace[j][1] = stage => \E i \in 1..(j - 1) : c.trace[i] = event

\* C21: the stages run in one order, each source consulted only when the
\* earlier ones gave nothing.  fetchPopularContent is called by the
\* orchestrator only after the genre search returned empty (and inside the
\* genre search only after no preference matched a genre, no search by genre
\* being made then); the static dataset is selected from only after the genre
\* search and the popular query both returned empty; the re-ranker is entered
\* only after one of the two returned items, never together with the static
\* dataset; and the final selection follows the re-ranker.
C21_StagesInOrder ==
    \A p \in Procs :
        LET c == orch[p]
        IN  /\ Earlier(c, <<"genre", "nomatch">>, "nested")
            /\ ~(Did(c, "genre", "matched") /\ Entered(c, "nested"))
            /\ Earlier(c, <<"genre", "empty">>, "popular")
            /\ Earlier(c, <<"genre", "empty">>, "mock")
            /\ Earlier(c, <<"popular", "empty">>, "mock")
            /\ Entered(c, "gemini") =>
                  /\ Did(c, "genre", "items") \/ Did(c, "popular", "items")
                  /\ Did(c, "genre", "items") => ~Entered(c, "popular")
                  /\ ~Entered(c, "mock")
            /\ Entered(c, "mock") =>
                  ~Did(c, "genre", "items") /\ ~Did(c, "popular", "items")
            /\ \A j \in 1..Len(c.trace) :
                  c.trace[j][1] = "final" =>
                      \E i \in 1..(j - 1) : c.trace[i][1] = "gemini"

\* the genre search returned nothing, the popular query items, and the call
\* went through the re-ranker to its end
C21_Witness ==
    /\ orch[1].pc = "done"
    /\ Did(orch[1], "genre", "matched")
    /\ Did(orch[1], "genre", "empty")
    /\ Did(orch[1], "popular", "items")
    /\ Did(orch[1], "gemini", "answered")

----------------------------------------------------------------------------
(* C22 *)

\* remaining() on the day and the store of the present state
RemainingNow == Max(0, DAILY_LIMIT - Len(TodayOf(localStorage, now)))

\* C22: whichever way a call went (catalog items, re-ranked items, the static
\* dataset), what it returns is what its last step selected with the target
\* count 10: with storage available it has at most min(10, remaining())
\* items, remaining() as the selection found it, and no item whose id is in
\* today's records.
C22_ResultIsASelection ==
    \A p \in Procs :
        LET c == orch[p]
        IN  (window /\ c.pc = "done") =>
                /\ Did(c, "mock", "select") \/ Did(c, "final", "select")
                /\ Len(c.result) <= Min(10, RemainingNow)
                /\ Range(c.result) \cap IdsOf(TodayOf(localStorage, now)) = {}

\* a call that went through the re-ranker returned the one item remaining()
\* allowed, from a catalog of which another item was already chosen today
C22_Witness ==
    /\ window
    /\ orch[1].pc = "done"
    /\ Did(orch[1], "gemini", "answered")
    /\ RemainingNow = 1
    /\ Len(orch[1].result) = 1
    /\ CatalogItems[1] \in IdsOf(TodayOf(localStorage, now))
    /\ CatalogItems[1] \notin Range(orch[1].result)

----------------------------------------------------------------------------
(* C23 *)

IsPrefix(s, t) == Len(s) <= Len(t) /\ \A i \in 1..Len(s) : s[i] = t[i]

\* C23: the list shrinks only by the cap.  An update given a list without a
\* repeated label returns a list without one, of which the given list cut to
\* the cap of the call site is a prefix: every label of the given list below
\* the cap stays at its position, whatever the action and the item.  So from
\* a list without a repeated label this holds of every update of a sequence.
C23_ShrinksOnlyByCap ==
    (Updated /\ NoRepeat(Given)) =>
        /\ NoRepeat(Returned)
        /\ IsPrefix(Slice0(Given, Cap), Returned)

\* a dislike of a resolved item whose genre the list holds, given a list
\* without a repeated label and longer than the cap, returned the list cut
\* to the cap
C23_Witness ==
    /\ Updated
    /\ profile.call.action = "dislike"
    /\ profile.call.found
    /\ Range(profile.call.genres) \cap Range(Given) # {}
    /\ NoRepeat(Given)
    /\ Len(Given) > Cap
    /\ Returned = Slice0(Given, Cap)

----------------------------------------------------------------------------
(* C24 *)

\* C24: with storage available and the daily limit reached (remaining() is
\* 0), fetchTmdbRecommendations, fetchPopularContent and searchTmdbContent
\* return an empty list at their first test, no request having been issued;
\* so a call of getPersonalizedRecommendations issues no request to the
\* catalog nor to the re-ranker, never waits for one, and returns an empty
\* list.  (The store does not change during the call, so the limit reached
\* now was reached when the call began.)
C24_LimitReachedNoRequest ==
    (window /\ RemainingNow = 0) =>
        \A p \in Procs :
            LET c == orch[p]
            IN  /\ \A stage \in Stages : ~Did(c, stage, "request")
                /\ c.pc \in {"start", "popular", "mock", "done"}
                /\ Entered(c, "genre") =>
                      Did(c, "genre", "limit") /\ Did(c, "genre", "empty")
                /\ Entered(c, "popular") =>
                      Did(c, "popular", "limit") /\ Did(c, "popular", "empty")
                /\ Entered(c, "search") =>
                      Did(c, "search", "limit") /\ Did(c, "search", "empty")
                /\ ~Entered(c, "gemini")
                /\ c.pc = "done" => c.result = <<>>

\* at the limit a call of getPersonalizedRecommendations came to its end by
\* the static dataset
C24_Witness ==
    /\ window
    /\ RemainingNow = 0
    /\ orch[1].pc = "done"
    /\ Did(orch[1], "genre", "limit")
    /\ Did(orch[1], "popular", "limit")
    /\ Did(orch[1], "mock", "select")
    /\ orch[1].result = <<>>

----------------------------------------------------------------------------
(* C25 *)

\* the items of the catalog's last answer that are not chosen today, by place
UnchosenFetched(c) ==
    PositionsNotIn(c.fetched, IdsOf(TodayOf(localStorage, now)))

\* C25: the second selection keeps what the first selected.  With storage
\* available and remaining() at least 10, when the genre search was answered
\* with at least 10 items not chosen today and the re-ranker had no key or
\* failed, the call returns exactly 10 items, all of them among the items
\* fetchTmdbRecommendations returned, which are among those the catalog
\* answered with; no item is returned twice.
C25_SecondPassKeepsFirst ==
    \A p \in Procs :
        LET c == orch[p]
        IN  (/\ window
             /\ c.pc = "done"
             /\ RemainingNow >= 10
             /\ Did(c, "genre", "matched")
             /\ Cardinality(UnchosenFetched(c)) >= 10
             /\ Did(c, "gemini", "nokey") \/ Did(c, "gemini", "threw"))
            =>
                /\ Len(c.result) = 10
                /\ Range(c.result) \subseteq Range(c.tmdb)
                /\ Range(c.tmdb) \subseteq Range(c.fetched)
                /\ NoRepeat(c.result)
                /\ Did(c, "final", "select")

\* Exactly 10 choices remained and exactly 10 of the 11 items the genre
\* search was answered with were not chosen today; without a key the call
\* returned those 10.
C25_Witness ==
    /\ window
    /\ orch[1].pc = "done"
    /\ RemainingNow = 10
    /\ Did(orch[1], "genre", "matched")
    /\ Len(orch[1].fetched) = 11
    /\ Cardinality(UnchosenFetched(orch[1])) = 10
    /\ Did(orch[1], "gemini", "nokey")
    /\ Len(orch[1].result) = 10
    /\ Range(orch[1].result) = Range(orch[1].tmdb)

====
